---- MODULE Spec2Model ----
(***************************************************************************)
(* Model of migrate_client.py: the ClientApp migration script.  It copies  *)
(* a fixed table of files from the HartsysDatasetEditor.Client tree to the *)
(* ClientApp tree and rewrites namespaces with an ordered list of regular  *)
(* expression substitutions.                                               *)
(*                                                                         *)
(* Text is modelled at character level: a text is a sequence of one        *)
(* character strings.  A regular expression is a sequence of pattern       *)
(* items; the only items the rule table uses are ordinary characters and   *)
(* the escaped dot.                                                        *)
(***************************************************************************)
EXTENDS Integers, Sequences, FiniteSets, TLC

(***************************************************************************)
(* The identifiers the tables are built from, as character sequences.      *)
(***************************************************************************)
w_HartsysDatasetEditor == <<"H","a","r","t","s","y","s","D","a","t","a","s","e","t","E","d","i","t","o","r">>
w_Client == <<"C","l","i","e","n","t">>
w_Pages == <<"P","a","g","e","s">>
w_Components == <<"C","o","m","p","o","n","e","n","t","s">>
w_Dataset == <<"D","a","t","a","s","e","t">>
w_Viewer == <<"V","i","e","w","e","r">>
w_Filter == <<"F","i","l","t","e","r">>
w_Dialogs == <<"D","i","a","l","o","g","s">>
w_Settings == <<"S","e","t","t","i","n","g","s">>
w_Common == <<"C","o","m","m","o","n">>
w_Layout == <<"L","a","y","o","u","t">>
w_Services == <<"S","e","r","v","i","c","e","s">>
w_Api == <<"A","p","i">>
w_JsInterop == <<"J","s","I","n","t","e","r","o","p">>
w_StateManagement == <<"S","t","a","t","e","M","a","n","a","g","e","m","e","n","t">>
w_Extensions == <<"E","x","t","e","n","s","i","o","n","s">>
w_Core == <<"C","o","r","e">>
w_Models == <<"M","o","d","e","l","s">>
w_Enums == <<"E","n","u","m","s">>
w_Interfaces == <<"I","n","t","e","r","f","a","c","e","s">>
w_Layouts == <<"L","a","y","o","u","t","s">>
w_Parsers == <<"P","a","r","s","e","r","s">>
w_Providers == <<"P","r","o","v","i","d","e","r","s">>
w_Contracts == <<"C","o","n","t","r","a","c","t","s">>
w_DatasetStudio == <<"D","a","t","a","s","e","t","S","t","u","d","i","o">>
w_ClientApp == <<"C","l","i","e","n","t","A","p","p">>
w_Features == <<"F","e","a","t","u","r","e","s">>
w_Datasets == <<"D","a","t","a","s","e","t","s">>
w_Shared == <<"S","h","a","r","e","d">>
w_ApiClients == <<"A","p","i","C","l","i","e","n","t","s">>
w_Interop == <<"I","n","t","e","r","o","p">>
w_DomainModels == <<"D","o","m","a","i","n","M","o","d","e","l","s">>
w_Enumerations == <<"E","n","u","m","e","r","a","t","i","o","n","s">>
w_Abstractions == <<"A","b","s","t","r","a","c","t","i","o","n","s">>
w_BusinessLogic == <<"B","u","s","i","n","e","s","s","L","o","g","i","c">>
w_Modality == <<"M","o","d","a","l","i","t","y">>
w_DTO == <<"D","T","O">>
w_using == <<"u","s","i","n","g"," ">>
w_old == <<"o","l","d">>

RECURSIVE JoinWith(_, _)
\* The words of ws joined by the separator sep.
JoinWith(sep, ws) ==
    IF Len(ws) = 0 THEN <<>>
    ELSE IF Len(ws) = 1 THEN ws[1]
    ELSE ws[1] \o sep \o JoinWith(sep, Tail(ws))

\* The regular expression item "\." of a raw pattern string.
EscDot == "\\."

\* A raw pattern string  r"A\.B\.C"  as a sequence of pattern items.
Pat(ws) == JoinWith(<<EscDot>>, ws)

\* A replacement string  "A.B.C"  as a sequence of characters.
Rep(ws) == JoinWith(<<".">>, ws)

\* NAMESPACE_REPLACEMENTS: (old_namespace_pattern, new_namespace), in order.
NAMESPACE_REPLACEMENTS == <<
    <<Pat(<<w_HartsysDatasetEditor, w_Client, w_Pages>>),
      Rep(<<w_DatasetStudio, w_ClientApp, w_Features, w_Datasets, w_Pages>>)>>,
    <<Pat(<<w_HartsysDatasetEditor, w_Client, w_Components, w_Dataset>>),
      Rep(<<w_DatasetStudio, w_ClientApp, w_Features, w_Datasets, w_Components>>)>>,
    <<Pat(<<w_HartsysDatasetEditor, w_Client, w_Components, w_Viewer>>),
      Rep(<<w_DatasetStudio, w_ClientApp, w_Features, w_Datasets, w_Components>>)>>,
    <<Pat(<<w_HartsysDatasetEditor, w_Client, w_Components, w_Filter>>),
      Rep(<<w_DatasetStudio, w_ClientApp, w_Features, w_Datasets, w_Components>>)>>,
    <<Pat(<<w_HartsysDatasetEditor, w_Client, w_Components, w_Dialogs>>),
      Rep(<<w_DatasetStudio, w_ClientApp, w_Features, w_Datasets, w_Components>>)>>,
    <<Pat(<<w_HartsysDatasetEditor, w_Client, w_Components, w_Settings>>),
      Rep(<<w_DatasetStudio, w_ClientApp, w_Features, w_Settings, w_Components>>)>>,
    <<Pat(<<w_HartsysDatasetEditor, w_Client, w_Components, w_Common>>),
      Rep(<<w_DatasetStudio, w_ClientApp, w_Shared, w_Components>>)>>,
    <<Pat(<<w_HartsysDatasetEditor, w_Client, w_Layout>>),
      Rep(<<w_DatasetStudio, w_ClientApp, w_Shared, w_Layout>>)>>,
    <<Pat(<<w_HartsysDatasetEditor, w_Client, w_Services, w_Api>>),
      Rep(<<w_DatasetStudio, w_ClientApp, w_Services, w_ApiClients>>)>>,
    <<Pat(<<w_HartsysDatasetEditor, w_Client, w_Services, w_JsInterop>>),
      Rep(<<w_DatasetStudio, w_ClientApp, w_Services, w_Interop>>)>>,
    <<Pat(<<w_HartsysDatasetEditor, w_Client, w_Services, w_StateManagement>>),
      Rep(<<w_DatasetStudio, w_ClientApp, w_Services, w_StateManagement>>)>>,
    <<Pat(<<w_HartsysDatasetEditor, w_Client, w_Services>>),
      Rep(<<w_DatasetStudio, w_ClientApp, w_Features, w_Datasets, w_Services>>)>>,
    <<Pat(<<w_HartsysDatasetEditor, w_Client, w_Extensions>>),
      Rep(<<w_DatasetStudio, w_ClientApp, w_Extensions>>)>>,
    <<Pat(<<w_HartsysDatasetEditor, w_Client>>),
      Rep(<<w_DatasetStudio, w_ClientApp>>)>>,
    <<Pat(<<w_HartsysDatasetEditor, w_Core, w_Models>>),
      Rep(<<w_DatasetStudio, w_Core, w_DomainModels>>)>>,
    <<Pat(<<w_HartsysDatasetEditor, w_Core, w_Enums>>),
      Rep(<<w_DatasetStudio, w_Core, w_Enumerations>>)>>,
    <<Pat(<<w_HartsysDatasetEditor, w_Core, w_Interfaces>>),
      Rep(<<w_DatasetStudio, w_Core, w_Abstractions>>)>>,
    <<Pat(<<w_HartsysDatasetEditor, w_Core, w_Services>>),
      Rep(<<w_DatasetStudio, w_Core, w_BusinessLogic>>)>>,
    <<Pat(<<w_HartsysDatasetEditor, w_Core, w_Services, w_Layouts>>),
      Rep(<<w_DatasetStudio, w_Core, w_BusinessLogic, w_Layouts>>)>>,
    <<Pat(<<w_HartsysDatasetEditor, w_Core, w_Services, w_Parsers>>),
      Rep(<<w_DatasetStudio, w_Core, w_BusinessLogic, w_Parsers>>)>>,
    <<Pat(<<w_HartsysDatasetEditor, w_Core, w_Services, w_Providers>>),
      Rep(<<w_DatasetStudio, w_Core, w_BusinessLogic, w_Modality>>)>>,
    <<Pat(<<w_HartsysDatasetEditor, w_Core>>),
      Rep(<<w_DatasetStudio, w_Core>>)>>,
    <<Pat(<<w_HartsysDatasetEditor, w_Contracts>>),
      Rep(<<w_DatasetStudio, w_DTO>>)>>
>>

RuleCount == Len(NAMESPACE_REPLACEMENTS)

\* Whether one item of a regular expression matches the character ch: the
\* escaped dot matches a dot, a bare dot any character but a newline, any
\* other item itself.
ItemMatches(item, ch) ==
    IF item = EscDot THEN ch = "."
    ELSE IF item = "." THEN ch # "\n"
    ELSE item = ch

\* Whether the pattern matches the text s at position i.
MatchAt(pattern, s, i) ==
    /\ i + Len(pattern) - 1 <= Len(s)
    /\ \A k \in 1..Len(pattern) : ItemMatches(pattern[k], s[i + k - 1])

\* The positions from i on at which the pattern matches s.
MatchesFrom(pattern, s, i) == { j \in i..Len(s) : MatchAt(pattern, s, j) }

\* The least element of a non-empty set of positions.
Least(S) == CHOOSE j \in S : \A m \in S : j <= m

RECURSIVE SubFrom(_, _, _, _)
\* re.sub scanning from position i: the text up to the leftmost match is
\* copied, the match is replaced by repl, and the scan goes on behind the
\* match, so that all non-overlapping matches are replaced.
SubFrom(pattern, repl, s, i) ==
    LET found == MatchesFrom(pattern, s, i)
    IN  IF found = {} THEN SubSeq(s, i, Len(s))
        ELSE LET j == Least(found)
             IN  SubSeq(s, i, j - 1) \o repl \o SubFrom(pattern, repl, s, j + Len(pattern))

\* re.sub with count=1: only the leftmost match is replaced.
re_sub_first(pattern, repl, string) ==
    LET found == MatchesFrom(pattern, string, 1)
    IN  IF found = {} THEN string
        ELSE LET j == Least(found)
             IN  SubSeq(string, 1, j - 1) \o repl
                     \o SubSeq(string, j + Len(pattern), Len(string))

\* re.sub(pattern, repl, string)
re_sub(pattern, repl, string) == SubFrom(pattern, repl, string, 1)

RECURSIVE ApplyRulesFrom(_, _)
\* The loop of update_content from rule k on: each rule is applied to the
\* result of the rules before it.
ApplyRulesFrom(k, content) ==
    IF k > RuleCount THEN content
    ELSE ApplyRulesFrom(k + 1,
             re_sub(NAMESPACE_REPLACEMENTS[k][1], NAMESPACE_REPLACEMENTS[k][2], content))

\* update_content(content)
update_content(content) == ApplyRulesFrom(1, content)

\* The literal text a pattern of the table denotes: "\." stands for ".".
Literal(pattern) ==
    [k \in 1..Len(pattern) |-> IF pattern[k] = EscDot THEN "." ELSE pattern[k]]

\* Whether the pattern matches somewhere in s (re.search).
Occurs(pattern, s) == \E j \in 1..Len(s) : MatchAt(pattern, s, j)

\* Whether sequence p is a strict prefix of sequence q.
StrictPrefix(p, q) == Len(p) < Len(q) /\ SubSeq(q, 1, Len(p)) = p

\* SRC_BASE and DEST_BASE.  A path is the sequence of its components, and a
\* base directory is taken as one component.
SRC_BASE ==
    <<"c:\\Users\\kaleb\\OneDrive\\Desktop\\Projects\\DatasetEditor\\src\\HartsysDatasetEditor.Client">>

DEST_BASE ==
    <<"c:\\Users\\kaleb\\OneDrive\\Desktop\\Projects\\DatasetEditor\\src\\ClientApp">>

\* FILE_MAPPINGS: (source_relative_path, dest_relative_path), in declaration
\* order; a relative path is the sequence of its components.
FILE_MAPPINGS == <<
    <<<<"Pages", "MyDatasets.razor.cs">>,
      <<"Features", "Datasets", "Pages", "DatasetLibrary.razor.cs">>>>,
    <<<<"Pages", "DatasetViewer.razor">>,
      <<"Features", "Datasets", "Pages", "DatasetViewer.razor">>>>,
    <<<<"Pages", "DatasetViewer.razor.cs">>,
      <<"Features", "Datasets", "Pages", "DatasetViewer.razor.cs">>>>,
    <<<<"Pages", "CreateDataset.razor">>,
      <<"Features", "Datasets", "Pages", "CreateDataset.razor">>>>,
    <<<<"Pages", "AITools.razor">>,
      <<"Features", "Datasets", "Pages", "AITools.razor">>>>,
    <<<<"Pages", "Settings.razor">>,
      <<"Features", "Settings", "Pages", "Settings.razor">>>>,
    <<<<"Components", "Dataset", "DatasetInfo.razor">>,
      <<"Features", "Datasets", "Components", "DatasetInfo.razor">>>>,
    <<<<"Components", "Dataset", "DatasetStats.razor">>,
      <<"Features", "Datasets", "Components", "DatasetStats.razor">>>>,
    <<<<"Components", "Dataset", "DatasetUploader.razor">>,
      <<"Features", "Datasets", "Components", "DatasetUploader.razor">>>>,
    <<<<"Components", "Dataset", "DatasetUploader.razor.cs">>,
      <<"Features", "Datasets", "Components", "DatasetUploader.razor.cs">>>>,
    <<<<"Components", "Dataset", "HuggingFaceDatasetOptions.razor">>,
      <<"Features", "Datasets", "Components", "HuggingFaceDatasetOptions.razor">>>>,
    <<<<"Components", "Viewer", "ImageCard.razor">>,
      <<"Features", "Datasets", "Components", "ImageCard.razor">>>>,
    <<<<"Components", "Viewer", "ImageCard.razor.cs">>,
      <<"Features", "Datasets", "Components", "ImageCard.razor.cs">>>>,
    <<<<"Components", "Viewer", "ImageDetailPanel.razor">>,
      <<"Features", "Datasets", "Components", "ImageDetailPanel.razor">>>>,
    <<<<"Components", "Viewer", "ImageDetailPanel.razor.cs">>,
      <<"Features", "Datasets", "Components", "ImageDetailPanel.razor.cs">>>>,
    <<<<"Components", "Viewer", "ImageGrid.razor">>,
      <<"Features", "Datasets", "Components", "ImageGrid.razor">>>>,
    <<<<"Components", "Viewer", "ImageGrid.razor.cs">>,
      <<"Features", "Datasets", "Components", "ImageGrid.razor.cs">>>>,
    <<<<"Components", "Viewer", "ImageList.razor">>,
      <<"Features", "Datasets", "Components", "ImageList.razor">>>>,
    <<<<"Components", "Viewer", "ImageLightbox.razor">>,
      <<"Features", "Datasets", "Components", "ImageLightbox.razor">>>>,
    <<<<"Components", "Viewer", "ViewerContainer.razor">>,
      <<"Features", "Datasets", "Components", "ViewerContainer.razor">>>>,
    <<<<"Components", "Viewer", "ViewerContainer.razor.cs">>,
      <<"Features", "Datasets", "Components", "ViewerContainer.razor.cs">>>>,
    <<<<"Components", "Filter", "FilterPanel.razor">>,
      <<"Features", "Datasets", "Components", "FilterPanel.razor">>>>,
    <<<<"Components", "Filter", "FilterPanel.razor.cs">>,
      <<"Features", "Datasets", "Components", "FilterPanel.razor.cs">>>>,
    <<<<"Components", "Filter", "DateRangeFilter.razor">>,
      <<"Features", "Datasets", "Components", "DateRangeFilter.razor">>>>,
    <<<<"Components", "Filter", "FilterChips.razor">>,
      <<"Features", "Datasets", "Components", "FilterChips.razor">>>>,
    <<<<"Components", "Filter", "SearchBar.razor">>,
      <<"Features", "Datasets", "Components", "SearchBar.razor">>>>,
    <<<<"Components", "Dialogs", "AddTagDialog.razor">>,
      <<"Features", "Datasets", "Components", "AddTagDialog.razor">>>>,
    <<<<"Components", "Settings", "ApiKeySettingsPanel.razor">>,
      <<"Features", "Settings", "Components", "ApiKeySettingsPanel.razor">>>>,
    <<<<"Components", "Settings", "LanguageSelector.razor">>,
      <<"Features", "Settings", "Components", "LanguageSelector.razor">>>>,
    <<<<"Components", "Settings", "ThemeSelector.razor">>,
      <<"Features", "Settings", "Components", "ThemeSelector.razor">>>>,
    <<<<"Components", "Settings", "ViewPreferences.razor">>,
      <<"Features", "Settings", "Components", "ViewPreferences.razor">>>>,
    <<<<"Components", "Common", "ConfirmDialog.razor">>,
      <<"Shared", "Components", "ConfirmDialog.razor">>>>,
    <<<<"Components", "Common", "DatasetSwitcher.razor">>,
      <<"Shared", "Components", "DatasetSwitcher.razor">>>>,
    <<<<"Components", "Common", "EmptyState.razor">>,
      <<"Shared", "Components", "EmptyState.razor">>>>,
    <<<<"Components", "Common", "ErrorBoundary.razor">>,
      <<"Shared", "Components", "ErrorBoundary.razor">>>>,
    <<<<"Components", "Common", "LayoutSwitcher.razor">>,
      <<"Shared", "Components", "LayoutSwitcher.razor">>>>,
    <<<<"Components", "Common", "LoadingIndicator.razor">>,
      <<"Shared", "Components", "LoadingIndicator.razor">>>>,
    <<<<"Layout", "MainLayout.razor">>,
      <<"Shared", "Layout", "MainLayout.razor">>>>,
    <<<<"Layout", "MainLayout.razor.cs">>,
      <<"Shared", "Layout", "MainLayout.razor.cs">>>>,
    <<<<"Layout", "NavMenu.razor">>,
      <<"Shared", "Layout", "NavMenu.razor">>>>,
    <<<<"Layout", "NavMenu.razor.cs">>,
      <<"Shared", "Layout", "NavMenu.razor.cs">>>>,
    <<<<"Services", "Api", "DatasetApiClient.cs">>,
      <<"Services", "ApiClients", "DatasetApiClient.cs">>>>,
    <<<<"Services", "Api", "DatasetApiOptions.cs">>,
      <<"Services", "ApiClients", "DatasetApiOptions.cs">>>>,
    <<<<"Services", "DatasetIndexedDbCache.cs">>,
      <<"Services", "Caching", "IndexedDbCache.cs">>>>,
    <<<<"Services", "DatasetCacheService.cs">>,
      <<"Features", "Datasets", "Services", "DatasetCacheService.cs">>>>,
    <<<<"Services", "ItemEditService.cs">>,
      <<"Features", "Datasets", "Services", "ItemEditService.cs">>>>,
    <<<<"Services", "ImageUrlHelper.cs">>,
      <<"Features", "Datasets", "Services", "ImageUrlHelper.cs">>>>,
    <<<<"Services", "JsInterop", "FileReaderInterop.cs">>,
      <<"Services", "Interop", "FileReaderInterop.cs">>>>,
    <<<<"Services", "JsInterop", "ImageLazyLoadInterop.cs">>,
      <<"Services", "Interop", "ImageLazyLoadInterop.cs">>>>,
    <<<<"Services", "JsInterop", "IndexedDbInterop.cs">>,
      <<"Services", "Interop", "IndexedDbInterop.cs">>>>,
    <<<<"Services", "JsInterop", "LocalStorageInterop.cs">>,
      <<"Services", "Interop", "LocalStorageInterop.cs">>>>,
    <<<<"Services", "NotificationService.cs">>,
      <<"Shared", "Services", "NotificationService.cs">>>>,
    <<<<"Services", "NavigationService.cs">>,
      <<"Shared", "Services", "NavigationService.cs">>>>,
    <<<<"Services", "StateManagement", "ApiKeyState.cs">>,
      <<"Services", "StateManagement", "ApiKeyState.cs">>>>,
    <<<<"Services", "StateManagement", "AppState.cs">>,
      <<"Services", "StateManagement", "AppState.cs">>>>,
    <<<<"Services", "StateManagement", "DatasetState.cs">>,
      <<"Services", "StateManagement", "DatasetState.cs">>>>,
    <<<<"Services", "StateManagement", "FilterState.cs">>,
      <<"Services", "StateManagement", "FilterState.cs">>>>,
    <<<<"Services", "StateManagement", "ViewState.cs">>,
      <<"Services", "StateManagement", "ViewState.cs">>>>,
    <<<<"Extensions", "ServiceCollectionExtensions.cs">>,
      <<"Extensions", "ServiceCollectionExtensions.cs">>>>
>>
(***************************************************************************)
(* Bounds of the model.                                                    *)
(***************************************************************************)
\* The number of entries of FILE_MAPPINGS the loop of main is run over.
NumMappings == 2

\* The number of times the script is run in a row.
MaxRuns == 2

\* The greatest number of fragments an input text of update_content is made of.
MaxParts == 2

(***************************************************************************)
(* The filesystem.  A path is the sequence of its components, a tree maps  *)
(* every path to the file there, and a set of directories holds the        *)
(* directories that exist.                                                 *)
(***************************************************************************)
NoFile == [exists |-> FALSE, text |-> <<>>]

File(t) == [exists |-> TRUE, text |-> t]

\* os.path.join(base, rel)
join(base, rel) == base \o rel

\* os.path.dirname(path)
dirname(path) == SubSeq(path, 1, Len(path) - 1)

\* os.makedirs(d, exist_ok=True), when it succeeds: d and all its ancestors
\* exist afterwards.
makedirs(dirset, d) == dirset \cup { SubSeq(d, 1, n) : n \in 1..Len(d) }

\* The entries of FILE_MAPPINGS the loop is run over: the last NumMappings
\* entries of the table, which lie in two destination directories.
Mappings ==
    SubSeq(FILE_MAPPINGS, Len(FILE_MAPPINGS) - NumMappings + 1, Len(FILE_MAPPINGS))

SrcPath(k) == join(SRC_BASE, Mappings[k][1])

DestPath(k) == join(DEST_BASE, Mappings[k][2])

SrcPaths == { SrcPath(k) : k \in 1..NumMappings }

DestPaths == { DestPath(k) : k \in 1..NumMappings }

DestDirs == { dirname(p) : p \in DestPaths }

Paths == SrcPaths \cup DestPaths

\* The texts a source file holds when it exists, one for each entry in turn.
SourceTexts == <<
    w_using \o Rep(<<w_HartsysDatasetEditor, w_Core>>) \o <<";">>,
    Rep(<<w_HartsysDatasetEditor, w_Client, w_Services, w_StateManagement>>),
    Rep(<<w_DatasetStudio, w_DTO>>)
>>

SourceText(k) == SourceTexts[((k - 1) % Len(SourceTexts)) + 1]

\* The text a destination file holds when it exists before the first run.
StaleText == w_old

\* One printed line.
Line(tag, a, b) == [tag |-> tag, a |-> a, b |-> b]

VARIABLES
    fs,             \* the files: path -> file
    dirs,           \* the directories that exist
    unreadable,     \* the files whose open(..., 'r') or read raises
    blockedDirs,    \* the directories os.makedirs cannot create
    openFails,      \* the files whose open(..., 'w') raises
    writeFails,     \* the files whose write raises after open(..., 'w')
    order,          \* the order the loop takes the entries in
    pc,             \* where main is: start, loop, done, raised
    idx,            \* the position of the loop in the table
    success_count,
    fail_count,
    stdout,         \* the lines printed by this run
    returned,       \* the outcome of every migrate_file call of this run
    run,            \* the number of the current run
    fs0,            \* the files before the first run
    dirs0,          \* the directories before the first run
    prevFs,         \* the files when the previous run ended
    text,           \* update_content: the input text
    result,         \* update_content(text)
    again,          \* update_content(result)
    stage           \* input, updated, again

vars == <<fs, dirs, unreadable, blockedDirs, openFails, writeFails, order, pc, idx,
          success_count, fail_count, stdout, returned, run, fs0, dirs0, prevFs,
          text, result, again, stage>>

envVars == <<unreadable, blockedDirs, openFails, writeFails, order, fs0, dirs0>>

runVars == <<fs, dirs, pc, idx, success_count, fail_count, stdout, returned, run, prevFs>>

textVars == <<text, result, again, stage>>

(***************************************************************************)
(* migrate_file(src_rel, dest_rel) on the files tree and the directories   *)
(* dirset: what it returns (True, False, or raise when an exception leaves *)
(* the function), the files and directories afterwards, and what it        *)
(* prints.                                                                 *)
(***************************************************************************)
\* migrate_file opening the destination in append mode.
migrate_file_append(tree, dirset, src_rel, dest_rel) ==
    LET src_path == join(SRC_BASE, src_rel)
        dest_path == join(DEST_BASE, dest_rel)
        dest_dir == dirname(dest_path)
        content == tree[src_path].text
        updated_content == update_content(content)
        made == makedirs(dirset, dest_dir)
    IN  IF ~tree[src_path].exists
        THEN [ret |-> "False", fs |-> tree, dirs |-> dirset,
              out |-> <<Line("[SKIP]", src_rel, <<>>)>>]
        ELSE IF dest_dir \in blockedDirs
        THEN [ret |-> "raise", fs |-> tree, dirs |-> dirset, out |-> <<>>]
        ELSE IF src_path \in unreadable
        THEN [ret |-> "False", fs |-> tree, dirs |-> made,
              out |-> <<Line("[ERROR] read", src_rel, <<>>)>>]
        ELSE IF dest_path \in openFails
        THEN [ret |-> "False", fs |-> tree, dirs |-> made,
              out |-> <<Line("[ERROR] write", dest_rel, <<>>)>>]
        ELSE IF dest_path \in writeFails
        THEN [ret |-> "False",
              fs |-> [tree EXCEPT ![dest_path] = File(tree[dest_path].text)],
              dirs |-> made,
              out |-> <<Line("[ERROR] write", dest_rel, <<>>)>>]
        ELSE [ret |-> "True",
              fs |-> [tree EXCEPT ![dest_path] = File(tree[dest_path].text \o updated_content)],
              dirs |-> made,
              out |-> <<Line("[OK]", src_rel, dest_rel)>>]

\* migrate_file writing the content it read, not the updated content.
migrate_file_raw(tree, dirset, src_rel, dest_rel) ==
    LET src_path == join(SRC_BASE, src_rel)
        dest_path == join(DEST_BASE, dest_rel)
        dest_dir == dirname(dest_path)
        content == tree[src_path].text
        made == makedirs(dirset, dest_dir)
    IN  IF ~tree[src_path].exists
        THEN [ret |-> "False", fs |-> tree, dirs |-> dirset,
              out |-> <<Line("[SKIP]", src_rel, <<>>)>>]
        ELSE IF dest_dir \in blockedDirs
        THEN [ret |-> "raise", fs |-> tree, dirs |-> dirset, out |-> <<>>]
        ELSE IF src_path \in unreadable
        THEN [ret |-> "False", fs |-> tree, dirs |-> made,
              out |-> <<Line("[ERROR] read", src_rel, <<>>)>>]
        ELSE IF dest_path \in openFails
        THEN [ret |-> "False", fs |-> tree, dirs |-> made,
              out |-> <<Line("[ERROR] write", dest_rel, <<>>)>>]
        ELSE IF dest_path \in writeFails
        THEN [ret |-> "False", fs |-> [tree EXCEPT ![dest_path] = File(<<>>)],
              dirs |-> made,
              out |-> <<Line("[ERROR] write", dest_rel, <<>>)>>]
        ELSE [ret |-> "True", fs |-> [tree EXCEPT ![dest_path] = File(content)],
              dirs |-> made,
              out |-> <<Line("[OK]", src_rel, dest_rel)>>]

\* migrate_file creating the destination directory before it looks for the
\* source.
migrate_file_mkdir_first(tree, dirset, src_rel, dest_rel) ==
    LET src_path == join(SRC_BASE, src_rel)
        dest_path == join(DEST_BASE, dest_rel)
        dest_dir == dirname(dest_path)
        content == tree[src_path].text
        updated_content == update_content(content)
        made == makedirs(dirset, dest_dir)
    IN  IF dest_dir \in blockedDirs
        THEN [ret |-> "raise", fs |-> tree, dirs |-> dirset, out |-> <<>>]
        ELSE IF ~tree[src_path].exists
        THEN [ret |-> "False", fs |-> tree, dirs |-> made,
              out |-> <<Line("[SKIP]", src_rel, <<>>)>>]
        ELSE IF src_path \in unreadable
        THEN [ret |-> "False", fs |-> tree, dirs |-> made,
              out |-> <<Line("[ERROR] read", src_rel, <<>>)>>]
        ELSE IF dest_path \in openFails
        THEN [ret |-> "False", fs |-> tree, dirs |-> made,
              out |-> <<Line("[ERROR] write", dest_rel, <<>>)>>]
        ELSE IF dest_path \in writeFails
        THEN [ret |-> "False", fs |-> [tree EXCEPT ![dest_path] = File(<<>>)],
              dirs |-> made,
              out |-> <<Line("[ERROR] write", dest_rel, <<>>)>>]
        ELSE [ret |-> "True", fs |-> [tree EXCEPT ![dest_path] = File(updated_content)],
              dirs |-> made,
              out |-> <<Line("[OK]", src_rel, dest_rel)>>]

\* migrate_file(src_rel, dest_rel).  The source is looked for first; the
\* destination directory is created outside any try block, so an exception
\* of os.makedirs leaves the function; a failure to read and a failure to
\* write are caught and give False.  open(dest_path, 'w') empties the file
\* before anything is written: a write that fails is taken to leave the file
\* empty.  The ancestors os.makedirs may have created before it fails are
\* left out.
migrate_file(tree, dirset, src_rel, dest_rel) ==
    LET src_path == join(SRC_BASE, src_rel)
        dest_path == join(DEST_BASE, dest_rel)
        dest_dir == dirname(dest_path)
        content == tree[src_path].text
        updated_content == update_content(content)
        made == makedirs(dirset, dest_dir)
    IN  IF ~tree[src_path].exists
        THEN [ret |-> "False", fs |-> tree, dirs |-> dirset,
              out |-> <<Line("[SKIP]", src_rel, <<>>)>>]
        ELSE IF dest_dir \in blockedDirs
        THEN [ret |-> "raise", fs |-> tree, dirs |-> dirset, out |-> <<>>]
        ELSE IF src_path \in unreadable
        THEN [ret |-> "False", fs |-> tree, dirs |-> made,
              out |-> <<Line("[ERROR] read", src_rel, <<>>)>>]
        ELSE IF dest_path \in openFails
        THEN [ret |-> "False", fs |-> tree, dirs |-> made,
              out |-> <<Line("[ERROR] write", dest_rel, <<>>)>>]
        ELSE IF dest_path \in writeFails
        THEN [ret |-> "False", fs |-> [tree EXCEPT ![dest_path] = File(<<>>)],
              dirs |-> made,
              out |-> <<Line("[ERROR] write", dest_rel, <<>>)>>]
        ELSE [ret |-> "True", fs |-> [tree EXCEPT ![dest_path] = File(updated_content)],
              dirs |-> made,
              out |-> <<Line("[OK]", src_rel, dest_rel)>>]

(***************************************************************************)
(* main.                                                                   *)
(***************************************************************************)
\* main, lines 169-176: the banner and the two counters.
Start ==
    /\ pc = "start"
    /\ stdout' = << Line("Starting ClientApp migration...", <<>>, <<>>),
                    Line("Source:", SRC_BASE, <<>>),
                    Line("Destination:", DEST_BASE, <<>>),
                    Line("Files to migrate:", <<NumMappings>>, <<>>),
                    Line("", <<>>, <<>>) >>
    /\ success_count' = 0
    /\ fail_count' = 0
    /\ idx' = 1
    /\ pc' = "loop"
    /\ UNCHANGED <<fs, dirs, returned, run, prevFs>>
    /\ UNCHANGED envVars
    /\ UNCHANGED textVars

\* One iteration that counts a success whatever migrate_file returns.
Iterate_count_all ==
    /\ pc = "loop"
    /\ idx <= NumMappings
    /\ \E r \in { migrate_file(fs, dirs, Mappings[order[idx]][1], Mappings[order[idx]][2]) } :
           /\ fs' = r.fs
           /\ dirs' = r.dirs
           /\ stdout' = stdout \o r.out
           /\ returned' = Append(returned, r.ret)
           /\ IF r.ret = "raise"
              THEN pc' = "raised" /\ UNCHANGED <<idx, success_count, fail_count>>
              ELSE /\ pc' = "loop"
                   /\ idx' = idx + 1
                   /\ success_count' = success_count + 1
                   /\ fail_count' = fail_count
    /\ UNCHANGED <<run, prevFs>>
    /\ UNCHANGED envVars
    /\ UNCHANGED textVars

\* main, lines 178-182: one iteration of the loop.  An exception that leaves
\* migrate_file leaves main too: nothing catches it.
Iterate ==
    /\ pc = "loop"
    /\ idx <= NumMappings
    /\ \E r \in { migrate_file(fs, dirs, Mappings[order[idx]][1], Mappings[order[idx]][2]) } :
           /\ fs' = r.fs
           /\ dirs' = r.dirs
           /\ stdout' = stdout \o r.out
           /\ returned' = Append(returned, r.ret)
           /\ IF r.ret = "raise"
              THEN pc' = "raised" /\ UNCHANGED <<idx, success_count, fail_count>>
              ELSE /\ pc' = "loop"
                   /\ idx' = idx + 1
                   /\ success_count' = success_count + (IF r.ret = "True" THEN 1 ELSE 0)
                   /\ fail_count' = fail_count + (IF r.ret = "True" THEN 0 ELSE 1)
    /\ UNCHANGED <<run, prevFs>>
    /\ UNCHANGED envVars
    /\ UNCHANGED textVars

\* main, lines 184-185: the summary, after the last entry.
Summary ==
    /\ pc = "loop"
    /\ idx > NumMappings
    /\ stdout' = stdout \o << Line("", <<>>, <<>>),
                              Line("Migration complete:", <<success_count>>, <<fail_count>>) >>
    /\ pc' = "done"
    /\ UNCHANGED <<fs, dirs, idx, success_count, fail_count, returned, run, prevFs>>
    /\ UNCHANGED envVars
    /\ UNCHANGED textVars

\* The script is run again, on the files the run before left.
Rerun ==
    /\ pc \in {"done", "raised"}
    /\ run < MaxRuns
    /\ run' = run + 1
    /\ prevFs' = fs
    /\ pc' = "start"
    /\ idx' = 1
    /\ success_count' = 0
    /\ fail_count' = 0
    /\ stdout' = <<>>
    /\ returned' = <<>>
    /\ UNCHANGED <<fs, dirs>>
    /\ UNCHANGED envVars
    /\ UNCHANGED textVars

\* The directories that exist when those of E and their ancestors do.
Closure(E) == UNION { makedirs({}, d) : d \in E }

\* The destinations a run can come to open for writing: those whose source
\* exists and can be read and whose directory can be created.  A failure to
\* open or to write any other file is never met, and is left out.
Opened(tree, unread, blocked) ==
    { DestPath(k) : k \in { n \in 1..NumMappings :
                               /\ tree[SrcPath(n)].exists
                               /\ SrcPath(n) \notin unread
                               /\ dirname(DestPath(n)) \notin blocked } }

\* The state of the filesystem before the first run, which no run changes
\* but for the files and directories it writes: any source file may be
\* missing, or exist and be unreadable; any destination directory may exist,
\* be missing, or be impossible to create; a destination file may exist
\* where its directory does; opening or writing any destination the run
\* opens may fail.
InitEnv ==
    /\ blockedDirs \in SUBSET DestDirs
    /\ dirs0 \in { Closure(E) : E \in SUBSET (DestDirs \ blockedDirs) }
    /\ \E present \in SUBSET SrcPaths, stale \in SUBSET { p \in DestPaths : dirname(p) \in dirs0 } :
           fs0 = [p \in Paths |->
                    IF p \in present
                    THEN File(SourceText(CHOOSE k \in 1..NumMappings : SrcPath(k) = p))
                    ELSE IF p \in stale THEN File(StaleText) ELSE NoFile]
    /\ unreadable \in SUBSET { p \in SrcPaths : fs0[p].exists }
    /\ openFails \in SUBSET Opened(fs0, unreadable, blockedDirs)
    /\ writeFails \in SUBSET (Opened(fs0, unreadable, blockedDirs) \ openFails)

InitRun ==
    /\ fs = fs0
    /\ dirs = dirs0
    /\ prevFs = fs0
    /\ pc = "start"
    /\ idx = 1
    /\ success_count = 0
    /\ fail_count = 0
    /\ stdout = <<>>
    /\ returned = <<>>
    /\ run = 1

\* The text variables, at rest while the script is run.
TextIdle == text = <<>> /\ result = <<>> /\ again = <<>> /\ stage = "idle"

DeclaredOrder == [k \in 1..NumMappings |-> k]

Init == InitEnv /\ order = DeclaredOrder /\ InitRun /\ TextIdle

Next == Start \/ Iterate \/ Summary \/ Rerun

\* The script, run up to MaxRuns times on an unchanged source tree.
Spec == Init /\ [][Next]_vars

\* main with the loop taking the entries in any order, to compare with the
\* declaration order.
InitOrder ==
    /\ InitEnv
    /\ order \in { f \in [1..NumMappings -> 1..NumMappings] :
                     \A a, b \in 1..NumMappings : a # b => f[a] # f[b] }
    /\ InitRun
    /\ TextIdle

SpecOrder == InitOrder /\ [][Next]_vars

(***************************************************************************)
(* update_content on its own: it is applied to an input text, and then to  *)
(* its own output.                                                         *)
(***************************************************************************)
\* The pieces the input texts are made of.
Fragments == {
    w_HartsysDatasetEditor,
    Rep(<<w_HartsysDatasetEditor, w_Client>>),
    w_using \o Rep(<<w_HartsysDatasetEditor, w_Client>>),
    Rep(<<w_HartsysDatasetEditor, w_Core>>),
    Rep(<<w_HartsysDatasetEditor, w_Contracts>>),
    <<".">> \o w_Client,
    <<".">> \o w_Core,
    <<".">> \o w_Services,
    <<".">> \o w_Providers,
    <<".">> \o w_Components,
    <<".">> \o w_Dataset,
    <<".">>,
    <<"A", "p", "p">>,
    <<";">>,
    w_DatasetStudio }

RECURSIVE TextsOf(_)
\* The texts made of at most n fragments.
TextsOf(n) ==
    IF n = 0 THEN { <<>> }
    ELSE LET shorter == TextsOf(n - 1)
         IN  shorter \cup { t \o f : t \in shorter, f \in Fragments }

\* The input texts: the literal of every pattern of the table, and the texts
\* made of at most MaxParts fragments.
Inputs ==
    { Literal(NAMESPACE_REPLACEMENTS[k][1]) : k \in 1..RuleCount } \cup TextsOf(MaxParts)

\* The files and the run, at rest while update_content is applied.
RunIdle ==
    /\ blockedDirs = {} /\ dirs0 = {} /\ unreadable = {} /\ openFails = {} /\ writeFails = {}
    /\ fs0 = [p \in Paths |-> NoFile]
    /\ order = DeclaredOrder
    /\ fs = fs0 /\ dirs = dirs0 /\ prevFs = fs0
    /\ pc = "idle" /\ idx = 1 /\ success_count = 0 /\ fail_count = 0
    /\ stdout = <<>> /\ returned = <<>> /\ run = 1

InitText == RunIdle /\ text \in Inputs /\ result = <<>> /\ again = <<>> /\ stage = "input"

UpdateContent ==
    /\ stage = "input"
    /\ result' = update_content(text)
    /\ stage' = "updated"
    /\ UNCHANGED <<text, again>>
    /\ UNCHANGED envVars
    /\ UNCHANGED runVars

UpdateAgain ==
    /\ stage = "updated"
    /\ again' = update_content(result)
    /\ stage' = "again"
    /\ UNCHANGED <<text, result>>
    /\ UNCHANGED envVars
    /\ UNCHANGED runVars

NextText == UpdateContent \/ UpdateAgain

SpecText == InitText /\ [][NextText]_vars

(***************************************************************************)
(* What the claims are stated with.                                        *)
(***************************************************************************)
\* main has ended: with the summary, or with an exception.
Terminal == pc \in {"done", "raised"}

\* The source of entry k exists and can be read.
SourceOk(k) == fs0[SrcPath(k)].exists /\ SrcPath(k) \notin unreadable

\* The source of entry k is missing.
SourceMissing(k) == ~fs0[SrcPath(k)].exists

\* Entry k can be migrated in full: its source exists and can be read, its
\* destination directory can be created and its destination written.
MigrateOk(k) ==
    /\ SourceOk(k)
    /\ dirname(DestPath(k)) \notin blockedDirs
    /\ DestPath(k) \notin (openFails \cup writeFails)

\* update_content of the original content of the source of entry k.
Migrated(k) == update_content(fs0[SrcPath(k)].text)

\* The calls of this run that returned v.
Returned(v) == { j \in 1..Len(returned) : returned[j] = v }

\* The number of lines main prints before the loop.
BannerLines == Len(<< "Starting ClientApp migration...", "Source:", "Destination:",
                     "Files to migrate:", "" >>)

\* C1: migrate_file never lets an exception reach its caller: every call
\* returns True or False, True only when the entry was migrated in full and
\* False after a message was printed.
C1_NeverPropagates ==
    /\ \A j \in 1..Len(returned) : returned[j] \in {"True", "False"}
    /\ \A j \in Returned("True") : MigrateOk(order[j])
    /\ pc \in {"loop", "raised"} => Len(stdout) = BannerLines + Len(returned)

\* C2, as stated: when main has finished, every entry whose source exists
\* and can be read has its destination file, holding update_content of the
\* original source content.
C2_ReadableSourceMigrated ==
    pc = "done" =>
        \A k \in 1..NumMappings :
            SourceOk(k) => fs[DestPath(k)] = File(Migrated(k))

\* C2, amended: a call of migrate_file returns True exactly for an entry
\* that can be migrated in full, and from that call on, also when main has
\* ended, the destination file of the entry exists and holds update_content
\* of the original source content.
C2_ReturnedTrueMigrated ==
    \A j \in 1..Len(returned) :
        LET k == order[j]
        IN  /\ returned[j] = "True" <=> MigrateOk(k)
            /\ returned[j] = "True" => fs[DestPath(k)] = File(Migrated(k))

\* A run has ended with a destination written: the destination held other
\* content, or none, before, and update_content changed the source content.
C2_Witness ==
    /\ pc = "done"
    /\ \E j \in Returned("True") :
           /\ fs0[DestPath(order[j])] # fs[DestPath(order[j])]
           /\ fs[DestPath(order[j])].text # fs0[SrcPath(order[j])].text

\* C3: a call of migrate_file for an entry whose source does not exist
\* returns False, prints one [SKIP] line naming the relative source path, and
\* leaves every file and every directory as it was.
C3_MissingSourceSkipped ==
    [][ (pc = "loop" /\ idx <= NumMappings /\ ~fs[SrcPath(order[idx])].exists)
            => /\ returned' = Append(returned, "False")
               /\ stdout' = Append(stdout, Line("[SKIP]", Mappings[order[idx]][1], <<>>))
               /\ fs' = fs
               /\ dirs' = dirs ]_vars

\* An entry with a missing source was skipped: its [SKIP] line is printed,
\* its destination does not exist and neither does the directory of it.
C3_Witness ==
    \E j \in Returned("False") :
        /\ SourceMissing(order[j])
        /\ \E n \in 1..Len(stdout) : stdout[n] = Line("[SKIP]", Mappings[order[j]][1], <<>>)
        /\ ~fs[DestPath(order[j])].exists
        /\ dirname(DestPath(order[j])) \notin dirs

\* C4: main attempts every entry once, in declaration order, whatever the
\* outcome of the entries before, and always reaches the summary: it never
\* ends with an exception, and when it has ended every entry was attempted
\* and the summary is the last line printed.
C4_EveryMappingAttempted ==
    /\ pc # "raised"
    /\ Terminal =>
           /\ Len(returned) = NumMappings
           /\ \A j \in 1..NumMappings :
                  stdout[BannerLines + j].a \in {Mappings[j][1], Mappings[j][2]}
           /\ stdout[Len(stdout)].tag = "Migration complete:"

\* C5, as stated: when every source is either missing or exists and can be
\* read, the summary reports the entries with such a source as succeeded and
\* the entries with a missing source as failed.
C5_SummaryCountsSources ==
    (pc = "done" /\ \A k \in 1..NumMappings : SourceMissing(k) \/ SourceOk(k)) =>
        /\ success_count = Cardinality({ k \in 1..NumMappings : SourceOk(k) })
        /\ fail_count = Cardinality({ k \in 1..NumMappings : SourceMissing(k) })

\* C5, amended: in every run success_count is the number of calls that
\* returned True and fail_count the number that returned False, so that they
\* sum to the number of entries processed; and when the summary is printed it
\* reports as succeeded the entries that could be migrated in full and as
\* failed all the others, a failed write among them.
C5_SummaryCountsReturns ==
    /\ success_count = Cardinality(Returned("True"))
    /\ fail_count = Cardinality(Returned("False"))
    /\ pc # "raised" => success_count + fail_count = Len(returned)
    /\ pc = "done" =>
           /\ success_count = Cardinality({ k \in 1..NumMappings : MigrateOk(k) })
           /\ fail_count = NumMappings - success_count
           /\ stdout[Len(stdout)] =
                  Line("Migration complete:", <<success_count>>, <<fail_count>>)

\* The summary is printed after a run in which an entry succeeded and the
\* write of an entry with a readable source failed.
C5_Witness ==
    /\ pc = "done"
    /\ success_count >= 1
    /\ \E k \in 1..NumMappings : SourceOk(k) /\ DestPath(k) \in writeFails

\* C6: for every rule of NAMESPACE_REPLACEMENTS, update_content rewrites the
\* literal text of the pattern of the rule to the replacement of the rule.
C6_EveryRuleRewritesItsLiteral ==
    stage = "updated" =>
        \A k \in 1..RuleCount :
            text = Literal(NAMESPACE_REPLACEMENTS[k][1])
                => result = NAMESPACE_REPLACEMENTS[k][2]

\* C7: for any two rules of which the later has a pattern that is a strict
\* prefix of the pattern of the earlier, update_content of the literal text
\* of the earlier pattern is the replacement of the earlier rule, in which
\* the later pattern does not occur.
C7_EarlierRuleWins ==
    stage = "updated" =>
        \A a, b \in 1..RuleCount :
            ( /\ a < b
              /\ StrictPrefix(NAMESPACE_REPLACEMENTS[b][1], NAMESPACE_REPLACEMENTS[a][1])
              /\ text = Literal(NAMESPACE_REPLACEMENTS[a][1]) )
                => /\ result = NAMESPACE_REPLACEMENTS[a][2]
                   /\ ~Occurs(NAMESPACE_REPLACEMENTS[b][1], result)

RECURSIVE RunFrom(_, _, _)
\* The files main leaves when it takes the entries from the k-th on in
\* declaration order.
RunFrom(tree, dirset, k) ==
    IF k > NumMappings THEN tree
    ELSE LET r == migrate_file(tree, dirset, Mappings[k][1], Mappings[k][2])
         IN  IF r.ret = "raise" THEN r.fs ELSE RunFrom(r.fs, r.dirs, k + 1)

\* The destination paths of FILE_MAPPINGS are pairwise distinct, and none is
\* the source path of an entry.
TableIndependent ==
    /\ \A a, b \in 1..Len(FILE_MAPPINGS) :
           a # b => join(DEST_BASE, FILE_MAPPINGS[a][2]) # join(DEST_BASE, FILE_MAPPINGS[b][2])
    /\ \A a, b \in 1..Len(FILE_MAPPINGS) :
           join(DEST_BASE, FILE_MAPPINGS[a][2]) # join(SRC_BASE, FILE_MAPPINGS[b][1])

\* C9: the files the first run leaves do not depend on the order the entries
\* are taken in: in whatever order the loop takes them, it leaves the files
\* that the loop in declaration order leaves.
C9_OrderIndependent ==
    /\ TableIndependent
    /\ (Terminal /\ run = 1) => fs = RunFrom(fs0, dirs0, 1)

\* C10: no pattern of NAMESPACE_REPLACEMENTS matches anywhere in the output
\* of update_content, and update_content of the output is the output.
C10_Idempotent ==
    /\ stage \in {"updated", "again"} =>
           \A k \in 1..RuleCount : ~Occurs(NAMESPACE_REPLACEMENTS[k][1], result)
    /\ stage = "again" => again = result

\* update_content was applied twice to a text in which it replaced a match
\* that had unreplaced text on both sides.
C10_Witness ==
    /\ stage = "again"
    /\ result # text
    /\ \E k \in 1..RuleCount :
           \E j \in 2..(Len(text) - Len(NAMESPACE_REPLACEMENTS[k][1])) :
               MatchAt(NAMESPACE_REPLACEMENTS[k][1], text, j)

====
